---- MODULE Spec2Model ----
(***************************************************************************)
(* State-machine model of the MT7621/MT7688 I2C master driver              *)
(* (drivers/i2c/busses/i2c-mt7621.c).                                      *)
(*                                                                         *)
(* The driver talks to the controller through memory-mapped registers.     *)
(* Every iowrite32 is recorded as an event of the trace `log`; every       *)
(* ioread32 of a hardware-owned value (status bits, received data) is an   *)
(* input chosen by the environment.  32-bit register values are kept as    *)
(* tuples of 4 bytes, least significant byte first, 64-bit values as       *)
(* tuples of 8 bytes, so that no value exceeds the range of TLC integers.  *)
(***************************************************************************)
EXTENDS Integers, Sequences, FiniteSets, TLC

(* ---------------- bounds of the model ---------------- *)
\* largest number of messages of one transfer request
MaxMsgs == 2
\* largest declared message length (the adapter quirk allows up to 64)
MaxLen == 10
\* msecs_to_jiffies(TIMEOUT_MS), in model ticks
TimeoutJiffies == 2

(* ---------------- register map and constants ---------------- *)
REG_SM0CFG0 == 8
REG_SM0CFG2 == 40
REG_SM0CTL0 == 64
REG_SM0CTL1 == 68
REG_SM0D0 == 80
REG_SM0D1 == 84
REG_SM0ST == 24
I2C_DEVADDR_MASK == 127
CLK_DIV_MASK == 4095
SM0_MODE_START == 1
SM0_MODE_WRITE == 2
SM0_MODE_STOP == 3
SM0_MODE_READ_ACK == 5
I2C_SMBUS_BLOCK_MAX == 32
EAGAIN == 11
EINVAL == 22
DefaultBusHz == 400000

\* message flags tested by the driver
MsgFlags == {"I2C_M_RD", "I2C_M_TEN", "I2C_M_RECV_LEN"}

(* ---------------- input sets ---------------- *)
\* target addresses: both fit in 7 bits
Addrs == {80, 127}
\* first byte of a write buffer / of the byte stream a device answers with
Seeds == {0, 1, 9, 31, 32, 200, 255}
\* the seeds used for plain write buffers and plain read streams
DataSeeds == {32, 200}
\* distance between consecutive bytes of a buffer or device stream
Stride == 37
\* clk_get_rate() and the "clock-frequency" property (NoProp: property absent)
ClkRates == {40000000, 20000000}
\* the rate of the clock when the controller is brought up
InitClkRates == {40000000}
NoProp == 0 - 1
BusHzProps == {NoProp, 100000, 5000}

(* ---------------- fixed-width arithmetic ---------------- *)
Min(a, b) == IF a < b THEN a ELSE b

RECURSIVE OrBits(_, _)
\* bitwise OR of two naturals
OrBits(a, b) ==
  IF a = 0 THEN b
  ELSE IF b = 0 THEN a
  ELSE 2 * OrBits(a \div 2, b \div 2) + (IF a % 2 = 1 \/ b % 2 = 1 THEN 1 ELSE 0)

\* a natural below 2^31 as a u32 (4 bytes, least significant first)
U32(n) == << n % 256, (n \div 256) % 256, (n \div 65536) % 256, (n \div 16777216) % 256 >>

Zero32 == << 0, 0, 0, 0 >>
Ones32 == << 255, 255, 255, 255 >>
Zero64 == Zero32 \o Zero32

Or32(a, b) == [k \in 1..4 |-> OrBits(a[k], b[k])]
Or64(a, b) == [k \in 1..8 |-> OrBits(a[k], b[k])]

\* byte k (0-based) of the pattern that starts at seed
PatByte(seed, k) == (seed + Stride * k) % 256

(* ---------------- state ---------------- *)
VARIABLES
  pc,            \* position of the driver: "probe", "ready", a label of mtk_i2c_master_xfer, "returned"
  clk_rate,      \* clk_get_rate(i2c->clk)
  cur_clk,       \* i2c->cur_clk
  clk_div,       \* i2c->clk_div
  clk_prop,      \* the "clock-frequency" property of the device node, or NoProp
  init_rate,     \* the clock rate mtk_i2c_init divided (0 before bring-up)
  num,           \* number of messages of the request in flight
  i,             \* loop index of mtk_i2c_master_xfer
  msg,           \* msgs[i]: addr, flags, len, and the seed of its buffer / device stream
  buf,           \* pmsg->buf: index -> byte, for the indices that hold a defined value
  written,       \* indices of pmsg->buf the driver has stored into during this message
  rd,            \* frame of mtk_i2c_read: len, pkt_num, base offset of buf, caller
  wr,            \* locals of the write path: plen, pkt_num
  poll,          \* frame of poll_down_timeout: kind, continuation, phase, elapsed jiffies
  ret,           \* value returned by the transfer call
  log,           \* I/O events of the current message (register writes, dump, device_reset)
  nStart,        \* start descriptors issued by this call
  nStop,         \* stop descriptors issued by this call
  nDump,         \* register dumps made by this call
  nReset,        \* Reset & Recovery cycles run by this call
  waitFailed,    \* some wait of this call ended with -EAGAIN
  failMsg,       \* index of the message during which the first wait failed, or -1
  idleFailed,    \* an idle wait (mtk_i2c_wait_idle) of this call ended with -EAGAIN
  invalidSeen,   \* a message of this call had a 10-bit address, length 0 or a bad block length
  descAfterFail  \* a descriptor was written to SM0CTL1 after a wait of this call failed

clkv == << clk_rate, cur_clk, clk_div, clk_prop, init_rate >>
cnts == << nStart, nStop, nDump, nReset >>
hist == << waitFailed, failMsg, idleFailed, invalidSeen >>
vars == << pc, clk_rate, cur_clk, clk_div, clk_prop, init_rate, num, i, msg, buf, written, rd, wr, poll, ret,
           log, nStart, nStop, nDump, nReset, waitFailed, failMsg, idleFailed, invalidSeen,
           descAfterFail >>

NoMsg == [addr |-> 0, flags |-> {}, len |-> 0, seed |-> 0]
NoRd == [len |-> 0, pkt_num |-> 0, base |-> 0, caller |-> "none"]
NoWr == [plen |-> 0, pkt_num |-> 0]
NoPoll == [kind |-> "none", next |-> "none", phase |-> "none", elapsed |-> 0,
           sample |-> "none", res |-> 0]
NoBuf == [k \in {} |-> 0]

\* the messages a caller may submit.  The seed matters only where a buffer or a
\* device stream is used; a block read is declared with a short length, since
\* the device decides how much is read; plain reads and writes use DataSeeds;
\* the second address is used with messages of at most one byte
MsgSet ==
  { m \in [addr : Addrs, flags : SUBSET MsgFlags, len : 0..MaxLen, seed : Seeds] :
      /\ ("I2C_M_TEN" \in m.flags \/ m.len = 0) => m.seed = 0
      /\ "I2C_M_TEN" \in m.flags => m.len <= 1
      /\ "I2C_M_RECV_LEN" \in m.flags => m.len <= 2
      /\ m.addr # 80 => (m.len <= 1 /\ m.seed \in {0, 32})
      /\ ("I2C_M_RECV_LEN" \notin m.flags /\ "I2C_M_TEN" \notin m.flags /\ m.len > 0)
            => m.seed \in DataSeeds }

\* the caller's buffer: filled for a write message, undefined for a read
InitBuf(m) ==
  IF m.flags \cap {"I2C_M_RD", "I2C_M_RECV_LEN"} = {}
  THEN [k \in 0..(m.len - 1) |-> PatByte(m.seed, k)]
  ELSE NoBuf

(* ---------------- register-level helpers ---------------- *)
\* mtk_i2c_w32 as an event
W32(reg, val) == [op |-> "w32", reg |-> reg, val |-> val]
DumpEv == [op |-> "dump", reg |-> 0, val |-> Zero32]
ResetEv == [op |-> "device_reset", reg |-> 0, val |-> Zero32]

\* (0xFF<<16) | (cnt << 8) | (mode << 4) | 1
Desc(cnt, mode) == U32(255 * 65536 + cnt * 256 + mode * 16 + 1)

\* ODRAIN_HIGH_SM0 | VSYNC_PULSE | (clk_div << CLK_DIV_SHIFT) | WAIT_HIGH | SM0_EN
Ctl0Val(div) == Or32(<< 66, 0, 0, 144 >>, << 0, 0, div % 256, (div \div 256) % 256 >>)

\* the events of mtk_i2c_reset
ResetEvents(div) ==
  << ResetEv, W32(REG_SM0CTL0, Ctl0Val(div)), W32(REG_SM0CFG2, Zero32) >>

\* mutant of ComputeDiv: the clamp to CLK_DIV_MASK is missing
ComputeDiv_NoClamp(rate, hz) == rate \div hz

\* the clock divisor of mtk_i2c_init
ComputeDiv(rate, hz) == Min(rate \div hz, CLK_DIV_MASK)

(* ---------------- the data window ---------------- *)
\* what a build may make of the out-of-range shifts of the write path
ShiftOutcomes == {"wrap", "zero"}

\* pmsg->buf[..] << (j*8): the byte is promoted to a 32-bit int.  For j < 4 the
\* shift stays inside the int (for j = 3 the sign bit may be set).  For j >= 4 the
\* shift count is >= the width of int, which is undefined: the build either
\* reduces the count modulo 32 ("wrap") or yields 0 ("zero").
ShlInt(b, j, ub) ==
  IF j < 4 THEN [k \in 1..4 |-> IF k = j + 1 THEN b ELSE 0]
  ELSE IF ub = "wrap" THEN [k \in 1..4 |-> IF k = (j % 4) + 1 THEN b ELSE 0]
  ELSE Zero32

\* conversion of the int to uint64_t for `verb |= ...`: sign extension
SExt64(w) == w \o (IF w[4] >= 128 THEN Ones32 ELSE Zero32)

RECURSIVE PackVerb(_, _, _, _)
\* verb after the iterations j = 0..n-1 of the packing loop of chunk pkt
PackVerb(b, pkt, n, ub) ==
  IF n = 0 THEN Zero64
  ELSE Or64(PackVerb(b, pkt, n - 1, ub), SExt64(ShlInt(b[(n - 1) + pkt * 8], n - 1, ub)))

\* the low and the high half of a 64-bit value, as written to SM0D0 and SM0D1
Lo32(v) == SubSeq(v, 1, 4)
Hi32(v) == SubSeq(v, 5, 8)

\* mutant of AddrByte: a block read always has the read direction bit
AddrByte_BlockReadDir(m) ==
  OrBits(m.addr * 2, IF m.flags \cap {"I2C_M_RD", "I2C_M_RECV_LEN"} # {} THEN 1 ELSE 0) % 256

\* ((addr << 1) | (flags & I2C_M_RD ? 1 : 0)) & 0xFF
AddrByte(m) == OrBits(m.addr * 2, IF "I2C_M_RD" \in m.flags THEN 1 ELSE 0) % 256

\* the 8 bytes the two data registers hold after read chunk pkt of a stream
\* whose bytes before that chunk number off
DevData(seed, off) == [k \in 1..8 |-> PatByte(seed, off + k - 1)]

\* mutant of StoreChunk: every chunk is unpacked at the start of the buffer
StoreChunk_NoOffset(b, base, pkt, plen, d) ==
  [k \in (DOMAIN b) \cup {base + j : j \in 0..(plen - 1)} |->
     IF k >= base /\ k < base + plen THEN d[k - base + 1] ELSE b[k]]

\* buf[i + pkt_num*8] = d >> (8*i) for i = 0..plen-1, relative to base
StoreChunk(b, base, pkt, plen, d) ==
  [k \in (DOMAIN b) \cup {base + pkt * 8 + j : j \in 0..(plen - 1)} |->
     IF k >= base + pkt * 8 /\ k < base + pkt * 8 + plen
     THEN d[k - base - pkt * 8 + 1]
     ELSE b[k]]

\* mutant of RecvLenOk: the upper bound is tested with <= instead of <
RecvLenOk_Inclusive(n) == n <= I2C_SMBUS_BLOCK_MAX /\ n > 0

\* the block-read length test of line 275
RecvLenOk(n) == n < I2C_SMBUS_BLOCK_MAX /\ n > 0

(* ---------------- initial state ---------------- *)
\* the adapter as devm_kzalloc leaves it, before mtk_i2c_probe has run
Init ==
  /\ pc = "probe"
  /\ clk_rate \in InitClkRates
  /\ cur_clk = 0
  /\ clk_div = 0
  /\ clk_prop \in BusHzProps
  /\ init_rate = 0
  /\ num = 0
  /\ i = 0
  /\ msg = NoMsg
  /\ buf = NoBuf
  /\ written = {}
  /\ rd = NoRd
  /\ wr = NoWr
  /\ poll = NoPoll
  /\ ret = 0
  /\ log = << >>
  /\ nStart = 0
  /\ nStop = 0
  /\ nDump = 0
  /\ nReset = 0
  /\ waitFailed = FALSE
  /\ failMsg = 0 - 1
  /\ idleFailed = FALSE
  /\ invalidSeen = FALSE
  /\ descAfterFail = FALSE

(* ---------------- bring-up ---------------- *)
\* mtk_i2c_probe: read the bus frequency (default 400 kHz), then mtk_i2c_init:
\* compute and clamp the divisor, then mtk_i2c_reset
mtk_i2c_probe ==
  /\ pc = "probe"
  /\ cur_clk' = (IF clk_prop = NoProp THEN DefaultBusHz ELSE clk_prop)
  /\ clk_div' = ComputeDiv(clk_rate, cur_clk')
  /\ init_rate' = clk_rate
  /\ log' = ResetEvents(clk_div')
  /\ pc' = "ready"
  /\ UNCHANGED << clk_rate, clk_prop, num, i, msg, buf, written, rd, wr, poll, ret, cnts, hist,
                  descAfterFail >>

\* the clock source changes its rate between two transfer calls (the driver
\* registers no notifier and is not told)
ClkRateChange ==
  /\ pc \in {"ready", "returned"}
  /\ \E r \in ClkRates \ {clk_rate} : clk_rate' = r
  /\ UNCHANGED << pc, cur_clk, clk_div, clk_prop, init_rate, num, i, msg, buf, written, rd,
                  wr, poll, ret, log, cnts, hist, descAfterFail >>

(* ---------------- poll_down_timeout ---------------- *)
StartPoll(kind, next) ==
  [kind |-> kind, next |-> next, phase |-> "sample", elapsed |-> 0, sample |-> "none",
   res |-> 0]

\* mutant of AfterIdle: the result of the idle wait is discarded like the others
AfterIdle_Continue(r) == "check_ten"

\* where mtk_i2c_master_xfer goes after mtk_i2c_wait_idle returned r (lines 243-244)
AfterIdle(r) == IF r = 0 THEN "check_ten" ELSE "err_timeout"

\* where the driver goes after mtk_i2c_wait_done returned r: every call site
\* (lines 216, 265, 270, 280, 300, 307) discards the result
AfterDone(r, next) == next

\* mtk_i2c_wait_idle / mtk_i2c_wait_done hand the result r of poll_down_timeout
\* to their caller
PollReturn(r) ==
  /\ poll' = NoPoll
  /\ waitFailed' = (waitFailed \/ r < 0)
  /\ failMsg' = (IF r < 0 /\ failMsg < 0 THEN i ELSE failMsg)
  /\ idleFailed' = (idleFailed \/ (poll.kind = "idle" /\ r < 0))
  /\ invalidSeen' = invalidSeen
  /\ IF poll.kind = "idle"
     THEN /\ ret' = r
          /\ pc' = AfterIdle(r)
     ELSE /\ ret' = ret
          /\ pc' = AfterDone(r, poll.next)
  /\ UNCHANGED << clkv, num, i, msg, buf, written, rd, wr, log, cnts, descAfterFail >>

\* the variables poll_down_timeout leaves alone
pollFrame == << pc, clkv, num, i, msg, buf, written, rd, wr, ret, log, cnts, hist,
                descAfterFail >>

\* line 130: one sample inside the loop; the masked bit is an input.  A clear
\* bit ends the poll with 0 at once.
PollSample ==
  /\ pc = "poll"
  /\ poll.phase = "sample"
  /\ \E busy \in BOOLEAN :
       poll' = IF busy
               THEN [poll EXCEPT !.phase = "sleep", !.sample = "busy"]
               ELSE [poll EXCEPT !.phase = "ret", !.sample = "clear", !.res = 0]
  /\ UNCHANGED pollFrame

\* mutant of SleepStep: the deadline is recomputed in every iteration, so the
\* elapsed time never accumulates
SleepStep_DeadlineMoves(d) ==
  /\ poll' = [poll EXCEPT !.elapsed = 0, !.phase = "sample"]
  /\ UNCHANGED pollFrame

\* lines 133-134: usleep_range, during which jiffies advance by d, then the
\* test time_before(jiffies, timeout)
SleepStep(d) ==
  /\ LET e == poll.elapsed + d IN
     poll' = [poll EXCEPT !.elapsed = e,
                          !.phase = IF e < TimeoutJiffies THEN "sample" ELSE "final"]
  /\ UNCHANGED pollFrame

\* a sleep of the polling loop
PollSleep ==
  /\ pc = "poll"
  /\ poll.phase = "sleep"
  /\ \E d \in 0..1 : SleepStep(d)

\* a sleep during which the jiffies counter advances
PollTick ==
  /\ pc = "poll"
  /\ poll.phase = "sleep"
  /\ SleepStep(1)

\* mutant of PollFinal: after the deadline the poll fails without looking at the
\* final sample (as poll_up_timeout does)
PollFinal_NoLastLook ==
  /\ pc = "poll"
  /\ poll.phase = "final"
  /\ \E busy \in BOOLEAN :
       poll' = [poll EXCEPT !.phase = "ret",
                            !.sample = IF busy THEN "busy" ELSE "clear",
                            !.res = 0 - EAGAIN]
  /\ UNCHANGED pollFrame

\* line 136: the final sample after the deadline decides the result
PollFinal ==
  /\ pc = "poll"
  /\ poll.phase = "final"
  /\ \E busy \in BOOLEAN :
       poll' = [poll EXCEPT !.phase = "ret",
                            !.sample = IF busy THEN "busy" ELSE "clear",
                            !.res = IF busy THEN 0 - EAGAIN ELSE 0]
  /\ UNCHANGED pollFrame

\* poll_down_timeout has returned: mtk_i2c_wait_idle (lines 143-147) or
\* mtk_i2c_wait_done (lines 169-173) returns its result to the driver
WaitReturn ==
  /\ pc = "poll"
  /\ poll.phase = "ret"
  /\ PollReturn(poll.res)

(* ---------------- mtk_i2c_master_xfer ---------------- *)
\* write a descriptor to SM0CTL1, after the register writes pre, and enter
\* mtk_i2c_wait_done; next is the statement that follows the wait
IssueCmd(pre, cnt, mode, next) ==
  /\ log' = log \o pre \o << W32(REG_SM0CTL1, Desc(cnt, mode)) >>
  /\ descAfterFail' = (descAfterFail \/ waitFailed)
  /\ nStart' = (IF mode = SM0_MODE_START THEN nStart + 1 ELSE nStart)
  /\ nStop' = (IF mode = SM0_MODE_STOP THEN nStop + 1 ELSE nStop)
  /\ poll' = StartPoll("done", next)
  /\ pc' = "poll"

\* a caller submits a request of n messages (lines 226-234)
Xfer ==
  /\ pc \in {"ready", "returned"}
  /\ \E n \in 1..MaxMsgs : num' = n
  /\ i' = 0
  /\ pc' = "loop"
  /\ msg' = NoMsg
  /\ buf' = NoBuf
  /\ written' = {}
  /\ rd' = NoRd
  /\ wr' = NoWr
  /\ poll' = NoPoll
  /\ ret' = 0
  /\ log' = << >>
  /\ nStart' = 0
  /\ nStop' = 0
  /\ nDump' = 0
  /\ nReset' = 0
  /\ waitFailed' = FALSE
  /\ failMsg' = 0 - 1
  /\ idleFailed' = FALSE
  /\ invalidSeen' = FALSE
  /\ descAfterFail' = FALSE
  /\ UNCHANGED clkv

\* lines 236-243: i < num, pmsg = &msgs[i], then mtk_i2c_wait_idle
NextMsg ==
  /\ pc = "loop"
  /\ i < num
  /\ \E m \in MsgSet :
       /\ msg' = m
       /\ buf' = InitBuf(m)
  /\ written' = {}
  /\ log' = << >>
  /\ invalidSeen' = (invalidSeen \/ "I2C_M_TEN" \in msg'.flags \/ msg'.len = 0)
  /\ poll' = StartPoll("idle", "check_ten")
  /\ pc' = "poll"
  /\ UNCHANGED << clkv, num, i, rd, wr, ret, cnts, waitFailed, failMsg, idleFailed,
                  descAfterFail >>

\* mutant of ReturnCount: success is reported as 0 instead of the message count
ReturnCount_Zero ==
  /\ pc = "loop"
  /\ ~(i < num)
  /\ ret' = 0
  /\ pc' = "returned"
  /\ UNCHANGED << clkv, num, i, msg, buf, written, rd, wr, poll, log, cnts, hist,
                  descAfterFail >>

\* lines 309-312: the loop is over, the return value is the number of messages
ReturnCount ==
  /\ pc = "loop"
  /\ ~(i < num)
  /\ ret' = i
  /\ pc' = "returned"
  /\ UNCHANGED << clkv, num, i, msg, buf, written, rd, wr, poll, log, cnts, hist,
                  descAfterFail >>

\* mutant of CheckTen: the address register is programmed before the flag is tested
CheckTen_WriteFirst ==
  /\ pc = "check_ten"
  /\ log' = log \o << W32(REG_SM0CFG0, U32(msg.addr % (I2C_DEVADDR_MASK + 1))) >>
  /\ IF "I2C_M_TEN" \in msg.flags
     THEN /\ ret' = 0 - EINVAL
          /\ pc' = "returned"
     ELSE /\ pc' = "check_len"
          /\ ret' = ret
  /\ UNCHANGED << clkv, num, i, msg, buf, written, rd, wr, poll, cnts, hist, descAfterFail >>

\* lines 246-253: reject a 10-bit address, else program the 7-bit address
CheckTen ==
  /\ pc = "check_ten"
  /\ IF "I2C_M_TEN" \in msg.flags
     THEN /\ ret' = 0 - EINVAL
          /\ pc' = "returned"
          /\ log' = log
     ELSE /\ log' = log \o << W32(REG_SM0CFG0, U32(msg.addr % (I2C_DEVADDR_MASK + 1))) >>
          /\ pc' = "check_len"
          /\ ret' = ret
  /\ UNCHANGED << clkv, num, i, msg, buf, written, rd, wr, poll, cnts, hist, descAfterFail >>

\* mutant of CheckLen: the rejection leaves through err_timeout instead of returning
CheckLen_GotoErr ==
  /\ pc = "check_len"
  /\ ret' = (IF msg.len = 0 THEN 0 - EINVAL ELSE ret)
  /\ pc' = (IF msg.len = 0 THEN "err_timeout" ELSE "start")
  /\ UNCHANGED << clkv, num, i, msg, buf, written, rd, wr, poll, log, cnts, hist,
                  descAfterFail >>

\* lines 256-259: reject a zero-length buffer
CheckLen ==
  /\ pc = "check_len"
  /\ IF msg.len = 0
     THEN /\ ret' = 0 - EINVAL
          /\ pc' = "returned"
     ELSE /\ pc' = "start"
          /\ ret' = ret
  /\ UNCHANGED << clkv, num, i, msg, buf, written, rd, wr, poll, log, cnts, hist,
                  descAfterFail >>

\* lines 264-265: the start descriptor
IssueStart ==
  /\ pc = "start"
  /\ IssueCmd(<< >>, 0, SM0_MODE_START, "addr")
  /\ UNCHANGED << clkv, num, i, msg, buf, written, rd, wr, ret, nDump, nReset, hist >>

\* lines 268-270: the address+direction byte, sent as a one-byte write
SendAddr ==
  /\ pc = "addr"
  /\ IssueCmd(<< W32(REG_SM0D0, U32(AddrByte(msg))) >>, 0, SM0_MODE_WRITE, "branch")
  /\ UNCHANGED << clkv, num, i, msg, buf, written, rd, wr, ret, nDump, nReset, hist >>

\* lines 272-287: choose the data phase
Branch ==
  /\ pc = "branch"
  /\ IF "I2C_M_RECV_LEN" \in msg.flags
     THEN /\ rd' = [len |-> 1, pkt_num |-> 0, base |-> 0, caller |-> "recv_check"]
          /\ pc' = "rd_loop"
          /\ wr' = wr
     ELSE IF "I2C_M_RD" \in msg.flags
     THEN /\ rd' = [len |-> msg.len, pkt_num |-> 0, base |-> 0, caller |-> "stop"]
          /\ pc' = "rd_loop"
          /\ wr' = wr
     ELSE /\ wr' = [plen |-> msg.len, pkt_num |-> 0]
          /\ pc' = "wr_loop"
          /\ rd' = rd
  /\ UNCHANGED << clkv, num, i, msg, buf, written, poll, ret, log, cnts, hist,
                  descAfterFail >>

\* mtk_i2c_read, lines 211-216: next read descriptor, or return to the caller
\* (the frame of mtk_i2c_read is popped)
RdLoop ==
  /\ pc = "rd_loop"
  /\ IF rd.len > 0
     THEN /\ IssueCmd(<< >>, Min(rd.len, 8) - 1, SM0_MODE_READ_ACK, "rd_data")
          /\ UNCHANGED << nDump, nReset >>
          /\ rd' = rd
     ELSE /\ pc' = rd.caller
          /\ rd' = NoRd
          /\ UNCHANGED << poll, log, cnts, descAfterFail >>
  /\ UNCHANGED << clkv, num, i, msg, buf, written, wr, ret, hist >>

\* mtk_i2c_read, lines 217-222: fetch the data window and unpack the chunk
RdData ==
  /\ pc = "rd_data"
  /\ LET plen == Min(rd.len, 8)
         d == DevData(msg.seed, rd.base + rd.pkt_num * 8)
     IN /\ buf' = StoreChunk(buf, rd.base, rd.pkt_num, plen, d)
        /\ written' = written \cup {rd.base + rd.pkt_num * 8 + j : j \in 0..(plen - 1)}
        /\ rd' = [rd EXCEPT !.len = @ - plen, !.pkt_num = @ + 1]
        /\ invalidSeen' = (invalidSeen \/ ("I2C_M_RECV_LEN" \in msg.flags /\ rd.base = 0
                                             /\ d[1] \notin 1..(I2C_SMBUS_BLOCK_MAX - 1)))
  /\ pc' = "rd_loop"
  /\ UNCHANGED << clkv, num, i, msg, wr, poll, ret, log, cnts, waitFailed, failMsg,
                  idleFailed, descAfterFail >>

\* mutant of RecvCheck: the data of a block read is stored from index 0, over
\* the length byte
RecvCheck_Base0 ==
  /\ pc = "recv_check"
  /\ IF RecvLenOk(buf[0])
     THEN /\ rd' = [len |-> buf[0], pkt_num |-> 0, base |-> 0, caller |-> "stop"]
          /\ pc' = "rd_loop"
          /\ UNCHANGED << poll, log, cnts, descAfterFail >>
     ELSE /\ IssueCmd(<< >>, 0, SM0_MODE_STOP, "recv_fail")
          /\ UNCHANGED << rd, nDump, nReset >>
  /\ UNCHANGED << clkv, num, i, msg, buf, written, wr, ret, hist >>

\* mutant of RecvCheck: a bogus length makes the call return without a stop
RecvCheck_NoStop ==
  /\ pc = "recv_check"
  /\ IF RecvLenOk(buf[0])
     THEN /\ rd' = [len |-> buf[0], pkt_num |-> 0, base |-> 1, caller |-> "stop"]
          /\ pc' = "rd_loop"
     ELSE /\ pc' = "recv_fail"
          /\ rd' = rd
  /\ UNCHANGED << poll, log, cnts, descAfterFail >>
  /\ UNCHANGED << clkv, num, i, msg, buf, written, wr, ret, hist >>

\* lines 275-280: the block-read length byte
RecvCheck ==
  /\ pc = "recv_check"
  /\ IF RecvLenOk(buf[0])
     THEN /\ rd' = [len |-> buf[0], pkt_num |-> 0, base |-> 1, caller |-> "stop"]
          /\ pc' = "rd_loop"
          /\ UNCHANGED << poll, log, cnts, descAfterFail >>
     ELSE /\ IssueCmd(<< >>, 0, SM0_MODE_STOP, "recv_fail")
          /\ UNCHANGED << rd, nDump, nReset >>
  /\ UNCHANGED << clkv, num, i, msg, buf, written, wr, ret, hist >>

\* line 281: the bogus length is reported
RecvFail ==
  /\ pc = "recv_fail"
  /\ ret' = 0 - EINVAL
  /\ pc' = "returned"
  /\ UNCHANGED << clkv, num, i, msg, buf, written, rd, wr, poll, log, cnts, hist,
                  descAfterFail >>

\* mutant of WrLoop: the count field of a write descriptor is the chunk's own
\* length minus one
WrLoop_ChunkCount ==
  /\ pc = "wr_loop"
  /\ IF wr.plen > 0
     THEN /\ \E ub \in ShiftOutcomes :
               LET verb == PackVerb(buf, wr.pkt_num, Min(wr.plen, 8), ub) IN
               IssueCmd(<< W32(REG_SM0D0, Lo32(verb)), W32(REG_SM0D1, Hi32(verb)) >>,
                        Min(wr.plen, 8) - 1, SM0_MODE_WRITE, "wr_next")
          /\ UNCHANGED << nDump, nReset >>
          /\ wr' = wr
     ELSE /\ pc' = "stop"
          /\ wr' = NoWr
          /\ UNCHANGED << poll, log, cnts, descAfterFail >>
  /\ UNCHANGED << clkv, num, i, msg, buf, written, rd, ret, hist >>

\* lines 288-300: pack the next chunk, write the data window and the descriptor;
\* when the loop ends its locals are dead
WrLoop ==
  /\ pc = "wr_loop"
  /\ IF wr.plen > 0
     THEN /\ \E ub \in ShiftOutcomes :
               LET verb == PackVerb(buf, wr.pkt_num, Min(wr.plen, 8), ub) IN
               IssueCmd(<< W32(REG_SM0D0, Lo32(verb)), W32(REG_SM0D1, Hi32(verb)) >>,
                        (msg.len - 1) % 8, SM0_MODE_WRITE, "wr_next")
          /\ UNCHANGED << nDump, nReset >>
          /\ wr' = wr
     ELSE /\ pc' = "stop"
          /\ wr' = NoWr
          /\ UNCHANGED << poll, log, cnts, descAfterFail >>
  /\ UNCHANGED << clkv, num, i, msg, buf, written, rd, ret, hist >>

\* lines 301-302
WrNext ==
  /\ pc = "wr_next"
  /\ wr' = [plen |-> wr.plen - Min(wr.plen, 8), pkt_num |-> wr.pkt_num + 1]
  /\ pc' = "wr_loop"
  /\ UNCHANGED << clkv, num, i, msg, buf, written, rd, poll, ret, log, cnts, hist,
                  descAfterFail >>

\* mutant of IssueStop: the message ends without a stop descriptor
IssueStop_Skipped ==
  /\ pc = "stop"
  /\ pc' = "next"
  /\ UNCHANGED << clkv, num, i, msg, buf, written, rd, wr, poll, ret, log, cnts, hist,
                  descAfterFail >>

\* lines 306-307: the stop descriptor
IssueStop ==
  /\ pc = "stop"
  /\ IssueCmd(<< >>, 0, SM0_MODE_STOP, "next")
  /\ UNCHANGED << clkv, num, i, msg, buf, written, rd, wr, ret, nDump, nReset, hist >>

\* line 236: i++
NextIter ==
  /\ pc = "next"
  /\ i' = i + 1
  /\ pc' = "loop"
  /\ UNCHANGED << clkv, num, msg, buf, written, rd, wr, poll, ret, log, cnts, hist,
                  descAfterFail >>

\* mutant of ErrTimeout: the controller is reset before the registers are dumped
ErrTimeout_ResetFirst ==
  /\ pc = "err_timeout"
  /\ log' = log \o ResetEvents(clk_div) \o << DumpEv >>
  /\ nDump' = nDump + 1
  /\ nReset' = nReset + 1
  /\ pc' = "returned"
  /\ UNCHANGED << clkv, num, i, msg, buf, written, rd, wr, poll, ret, nStart, nStop, hist,
                  descAfterFail >>

\* lines 314-318: dump the registers, reset the controller, return the error
ErrTimeout ==
  /\ pc = "err_timeout"
  /\ log' = log \o << DumpEv >> \o ResetEvents(clk_div)
  /\ nDump' = nDump + 1
  /\ nReset' = nReset + 1
  /\ pc' = "returned"
  /\ UNCHANGED << clkv, num, i, msg, buf, written, rd, wr, poll, ret, nStart, nStop, hist,
                  descAfterFail >>

Next ==
  \/ mtk_i2c_probe
  \/ ClkRateChange
  \/ Xfer
  \/ NextMsg
  \/ ReturnCount
  \/ PollSample
  \/ PollSleep
  \/ PollFinal
  \/ WaitReturn
  \/ CheckTen
  \/ CheckLen
  \/ IssueStart
  \/ SendAddr
  \/ Branch
  \/ RdLoop
  \/ RdData
  \/ RecvCheck
  \/ RecvFail
  \/ WrLoop
  \/ WrNext
  \/ IssueStop
  \/ NextIter
  \/ ErrTimeout

Spec == Init /\ [][Next]_vars

(* ======================================================================= *)
(* Properties                                                              *)
(* ======================================================================= *)
IsW(e, reg) == e.op = "w32" /\ e.reg = reg
IsDesc(e) == IsW(e, REG_SM0CTL1)
DescMode(e) == e.val[1] \div 16
DescCnt(e) == e.val[2]
Descs(l) == SelectSeq(l, IsDesc)
CountMode(l, mode) == Cardinality({k \in 1..Len(l) : IsDesc(l[k]) /\ DescMode(l[k]) = mode})
Ceil8(x) == (x + 7) \div 8
IsBlockRead == "I2C_M_RECV_LEN" \in msg.flags
IsReadMsg == msg.flags \cap {"I2C_M_RD", "I2C_M_RECV_LEN"} # {}
IsWriteMsg == ~IsReadMsg
Returned == pc = "returned"
\* a Reset & Recovery event is in the trace of the current message
ResetInLog ==
  \E k \in 1..Len(log) :
    log[k].op \in {"dump", "device_reset"} \/ IsW(log[k], REG_SM0CTL0) \/ IsW(log[k], REG_SM0CFG2)

\* C1: whenever a wait of a transfer call has failed (idle wait or any
\* operation-done wait), the call ends with the Timeout error and has run
\* Reset & Recovery exactly once before returning (stated for requests all of
\* whose messages are valid, so that no other error competes with the timeout).
C1_EveryFailedWaitEndsInTimeout ==
  (Returned /\ waitFailed /\ ~invalidSeen) => (ret = 0 - EAGAIN /\ nReset = 1 /\ nDump = 1)

\* C2: once a wait of a transfer call has failed, the driver writes no further
\* start, write, read or stop descriptor to the command register during that call.
C2_NoDescriptorAfterFailedWait == ~descAfterFail

\* C3: a call in which every message has a 7-bit address, a non-zero length and
\* (for a block read) a valid length byte, and in which every wait succeeds,
\* returns exactly the number of messages of the request.
C3_SuccessReturnsCount ==
  (Returned /\ ~waitFailed /\ ~invalidSeen) => (ret = num /\ i = num /\ nStop = num)

C3_Witness == Returned /\ ~waitFailed /\ ~invalidSeen /\ num = 2 /\ ret = 2 /\ IsBlockRead

\* C4 as claimed: if the first failing wait occurs while message k is being
\* processed, the call reports k, and k is smaller than the request length
\* (stated for requests all of whose messages are valid).
C4_ReportsCompletedCount ==
  (Returned /\ failMsg >= 0 /\ ~invalidSeen) => (ret = failMsg /\ ret < num)

\* C4 amended: if the idle wait before message k fails, the call returns the
\* timeout error code -EAGAIN (not k); that value is smaller than the request
\* length, and the k earlier messages have each been completed with their stop.
C4_IdleTimeoutReturnsError ==
  (Returned /\ idleFailed) =>
    (ret = 0 - EAGAIN /\ ret < num /\ ret # i /\ i < num /\ nStart = i /\ nStop = i)

C4_Witness == Returned /\ idleFailed /\ i = 1 /\ nStop = 1 /\ ret = 0 - EAGAIN

\* the descriptors of the current message form one start...stop envelope
Envelope ==
  LET ds == Descs(log)
      n == Len(ds)
      data == IF IsBlockRead THEN 1 + Ceil8(buf[0]) ELSE Ceil8(msg.len)
  IN /\ n = 3 + data
     /\ ds[1].val = Desc(0, SM0_MODE_START)
     /\ ds[2].val = Desc(0, SM0_MODE_WRITE)
     /\ ds[n].val = Desc(0, SM0_MODE_STOP)
     /\ \A k \in 3..(n - 1) :
          DescMode(ds[k]) = (IF IsReadMsg THEN SM0_MODE_READ_ACK ELSE SM0_MODE_WRITE)
     /\ IsW(log[1], REG_SM0CFG0)
     /\ log[2] = ds[1]
     /\ IsW(log[3], REG_SM0D0)
     /\ log[3].val = U32((2 * msg.addr + (IF "I2C_M_RD" \in msg.flags THEN 1 ELSE 0)) % 256)
     /\ log[4] = ds[2]
     /\ log[Len(log)] = ds[n]

\* C5: for every message of a request whose waits all succeed, the descriptors
\* written are one start (count 0), one single-byte write of the address byte,
\* the read or write descriptors of the data phase, then one stop; no register
\* is written before the idle wait of the message has ended, and the next
\* message begins only after the stop of the previous one.
C5_MessageEnvelope ==
  /\ ((pc = "next" \/ (pc = "loop" /\ i > 0)) /\ ~waitFailed) =>
       (Envelope /\ nStart = nStop /\ nStop = (IF pc = "next" THEN i + 1 ELSE i))
  /\ ((pc = "poll" /\ poll.kind = "idle") \/ pc = "check_ten") => log = << >>
  /\ (pc = "loop" /\ i = 0) => (log = << >> /\ nStart = 0 /\ nStop = 0)
  /\ nStart \in {nStop, nStop + 1}

C5_Witness ==
  pc = "next" /\ i = 1 /\ ~waitFailed /\ IsReadMsg /\ ~IsBlockRead /\ Len(Descs(log)) = 5

\* C6 as claimed: a message with the 10-bit-address flag always makes the call
\* yield InvalidArgument, with no register write for that message.
C6_TenAlwaysInvalidArgument ==
  (Returned /\ "I2C_M_TEN" \in msg.flags) => (ret = 0 - EINVAL /\ log = << >>)

\* C6 amended: a message with the 10-bit-address flag whose idle wait succeeds
\* makes the call yield InvalidArgument, and no register is written between the
\* beginning of that message and the return of the error.
C6_TenRejectedAfterIdle ==
  ("I2C_M_TEN" \in msg.flags /\ ~idleFailed) =>
    /\ log = << >>
    /\ pc \in {"poll", "check_ten", "returned"}
    /\ pc = "poll" => poll.kind = "idle"
    /\ Returned => (ret = 0 - EINVAL /\ nStart = i /\ nStop = i /\ nReset = 0)

C6_Witness ==
  Returned /\ "I2C_M_TEN" \in msg.flags /\ ~idleFailed /\ ret = 0 - EINVAL /\ i = 1

\* C7: a message of length 0 (whose idle wait succeeded) makes the call yield
\* InvalidArgument without any register write for that message, in particular
\* none to the address-config register.
C7_ZeroLenNoRegisterWrite ==
  (Returned /\ msg.len = 0 /\ "I2C_M_TEN" \notin msg.flags /\ ~idleFailed) =>
    (ret = 0 - EINVAL /\ log = << >>)

\* the received length byte of the current block-read message is not in 1..31
BadBlockLen ==
  IsBlockRead /\ 0 \in written /\ buf[0] \notin 1..(I2C_SMBUS_BLOCK_MAX - 1)

\* C8: when the first received byte of a block read is 0 or >= 32, no further
\* read descriptor is issued and no buffer index other than 0 is written;
\* exactly one stop descriptor follows the one-byte length read and the call
\* yields the error -EINVAL (ProtocolViolation).
C8_BadBlockLenStops ==
  BadBlockLen =>
    /\ written = {0}
    /\ CountMode(log, SM0_MODE_READ_ACK) = 1
    /\ DescCnt(Descs(log)[3]) = 0
    /\ CountMode(log, SM0_MODE_STOP) <= 1
    /\ pc \in {"rd_loop", "recv_check", "poll", "recv_fail", "returned"}
    /\ pc = "poll" => poll.next = "recv_fail"
    /\ pc \in {"poll", "recv_fail", "returned"} =>
         /\ CountMode(log, SM0_MODE_STOP) = 1
         /\ log[Len(log)].val = Desc(0, SM0_MODE_STOP)
         /\ Len(Descs(log)) = 4
    /\ Returned => ret = 0 - EINVAL

C8_Witness == Returned /\ BadBlockLen /\ buf[0] = 200 /\ ret = 0 - EINVAL /\ nStop = i + 1

\* C9: a call that ends with InvalidArgument or ProtocolViolation (-EINVAL) has
\* not run Reset & Recovery: no reset, no control or auto-mode register write,
\* no register dump; dump and reset occur only in calls in which a wait timed out.
C9_NoResetOnArgumentError ==
  /\ (Returned /\ ret = 0 - EINVAL) => (nReset = 0 /\ nDump = 0 /\ ~ResetInLog)
  /\ (nReset > 0 \/ nDump > 0) => (waitFailed /\ idleFailed /\ nReset = 1 /\ nDump = 1)
  /\ (pc \notin {"probe", "ready"} /\ ResetInLog) => nReset = 1

C9_Witness == Returned /\ ret = 0 - EINVAL /\ BadBlockLen /\ i = 1 /\ nReset = 0

\* the bytes of chunk c of the write buffer, little-endian, upper bytes 0
ChunkWindow(c) ==
  [k \in 1..8 |-> IF 8 * c + k - 1 < msg.len THEN buf[8 * c + k - 1] ELSE 0]

\* C10: the data phase of a write message of length L issues ceil(L/8) write
\* descriptors, and before the c-th of them the 64-bit data window (SM0D0 low
\* half, SM0D1 high half) holds the bytes of chunk c packed little-endian, all
\* higher bits 0.
C10_WriteWindowPacked ==
  (pc = "stop" /\ IsWriteMsg) =>
    /\ Len(log) = 4 + 3 * Ceil8(msg.len)
    /\ \A c \in 0..(Ceil8(msg.len) - 1) :
         /\ IsW(log[5 + 3 * c], REG_SM0D0)
         /\ IsW(log[6 + 3 * c], REG_SM0D1)
         /\ IsDesc(log[7 + 3 * c])
         /\ DescMode(log[7 + 3 * c]) = SM0_MODE_WRITE
         /\ log[5 + 3 * c].val \o log[6 + 3 * c].val = ChunkWindow(c)
RECURSIVE ReadBack(_)
\* the destination buffer after the read path has unpacked the first n chunks of
\* a device that returns, chunk by chunk, the data window it was written
ReadBack(n) ==
  IF n = 0 THEN NoBuf
  ELSE StoreChunk(ReadBack(n - 1), 0, n - 1, Min(msg.len - 8 * (n - 1), 8),
                  log[5 + 3 * (n - 1)].val \o log[6 + 3 * (n - 1)].val)

\* C11: round trip: writing a buffer B of length L through the write path and
\* reading L bytes back through the read path, from a device that returns the
\* data windows it received, yields B.
C11_RoundTrip ==
  (pc = "stop" /\ IsWriteMsg) => ReadBack(Ceil8(msg.len)) = buf

\* min(floor(rate at bring-up / bus frequency), 0xFFF), the bus frequency
\* defaulting to 400 kHz
ExpectedDiv ==
  LET hz == IF clk_prop = NoProp THEN 400000 ELSE clk_prop
      q == init_rate \div hz
  IN IF q > 4095 THEN 4095 ELSE q

\* C12: after bring-up the stored divisor is min(floor(clock rate / bus
\* frequency), 0xFFF) with the bus frequency defaulting to 400 kHz (40 MHz and
\* 100 kHz give 400); it stays <= 0xFFF, and every value written to the control
\* register carries it in bits 16..27 without touching the neighbouring bits.
C12_DivisorClamped ==
  pc # "probe" =>
    /\ clk_div = ExpectedDiv
    /\ clk_div <= 4095
    /\ (init_rate = 40000000 /\ clk_prop = 100000) => clk_div = 400
    /\ \A k \in 1..Len(log) :
         IsW(log[k], REG_SM0CTL0) =>
           log[k].val = << 66, 0, clk_div % 256, 144 + (clk_div \div 256) >>

C12_Witness ==
  /\ Returned
  /\ idleFailed
  /\ clk_prop = 5000
  /\ clk_div = 4095
  /\ \E k \in 1..Len(log) : IsW(log[k], REG_SM0CTL0)

\* what holds of the poller in every state
PollerInv ==
  /\ (pc = "poll" /\ poll.phase = "sample") => poll.elapsed < TimeoutJiffies
  /\ (pc = "poll" /\ poll.phase = "final") =>
       (poll.elapsed >= TimeoutJiffies /\ poll.sample = "busy")
  /\ (pc = "poll" /\ poll.phase = "ret") =>
       /\ poll.res \in {0, 0 - EAGAIN}
       /\ poll.res = 0 <=> poll.sample = "clear"
       /\ poll.res < 0 => poll.elapsed >= TimeoutJiffies

\* what holds of every step of the poller: a sample in the loop either finds the
\* bit clear and ends the poll with 0, or finds it set and sleeps; the final
\* sample is taken once; no step before the return changes anything but the
\* poller's own frame
PollerStep ==
  (pc = "poll" /\ poll.phase # "ret") =>
    /\ UNCHANGED pollFrame
    /\ poll.phase = "sample" =>
         \/ poll'.phase = "ret" /\ poll'.sample = "clear" /\ poll'.res = 0
         \/ poll'.phase = "sleep" /\ poll'.sample = "busy"
    /\ poll.phase = "final" => poll'.phase = "ret"
    /\ poll'.elapsed >= poll.elapsed

\* C18: the busy-style wait succeeds as soon as a sample finds the masked bit
\* clear; after the deadline it takes one final sample and fails with -EAGAIN
\* only if the bit is still set in that sample (a bit that clears at expiry
\* yields success); the poller only reads: it writes no register and no driver
\* state.
C18_Poller == [](PollerInv) /\ [][PollerStep]_vars

\* the bit is found clear by the final sample, at expiry
C18_Witness ==
  /\ pc = "poll"
  /\ poll.phase = "ret"
  /\ poll.elapsed >= TimeoutJiffies
  /\ poll.sample = "clear"
  /\ poll.res = 0
  /\ poll.kind = "done"

\* a step of the driver inside a call: the thread that runs mtk_i2c_master_xfer
\* is scheduled until it returns
DriverStep ==
  \/ NextMsg \/ ReturnCount \/ PollSample \/ PollSleep \/ PollFinal \/ WaitReturn
  \/ CheckTen \/ CheckLen \/ IssueStart \/ SendAddr \/ Branch \/ RdLoop \/ RdData
  \/ RecvCheck \/ RecvFail \/ WrLoop \/ WrNext \/ IssueStop \/ NextIter \/ ErrTimeout

\* bring-up without a clock-frequency property (the default bus speed)
InitFair == Init /\ clk_prop = NoProp

\* the data of the messages of the fair runs: a bad and a good block length,
\* and one pattern of data bytes
LiveSeeds == {0, 1, 32}

\* the calls on a controller whose input clock keeps its rate
NextFair ==
  /\ mtk_i2c_probe \/ Xfer \/ DriverStep
  /\ msg'.seed \in LiveSeeds

\* the program with its scheduling: the calling thread keeps running, and the
\* jiffies counter advances during the sleeps of a poll that keeps sleeping
SpecFair ==
  InitFair /\ [][NextFair]_vars /\ WF_vars(mtk_i2c_probe) /\ WF_vars(DriverStep)
           /\ SF_vars(PollTick)

InCall == pc \notin {"probe", "ready", "returned"}

\* C13: every call of the transfer operation terminates: each wait on the
\* controller is bounded by the timeout, so with time advancing and the caller
\* scheduled, a call that has started reaches its return.
C13_EveryCallTerminates == InCall ~> Returned

\* a call has returned although one of its waits ran to the deadline
C13_Witness ==
  /\ Returned
  /\ waitFailed
  /\ ~idleFailed
  /\ ~invalidSeen
  /\ num = MaxMsgs
  /\ ret = num

\* a message on the plain read path (line 283)
PlainRead == "I2C_M_RD" \in msg.flags /\ "I2C_M_RECV_LEN" \notin msg.flags

\* the read descriptor of chunk c of a read of n bytes
ReadDesc(n, c) == W32(REG_SM0CTL1, Desc(Min(8, n - 8 * c) - 1, SM0_MODE_READ_ACK))

\* C14: a read of length L issues exactly ceil(L/8) read-with-acknowledge
\* descriptors, the c-th with count field min(8, L-8c) - 1; the bytes of the
\* 64-bit data window fetched after descriptor c are stored at indices 8c+j;
\* afterwards indices 0..L-1 hold the received bytes in order, and no index
\* >= L is ever written.
C14_ReadPath ==
  /\ PlainRead => (\A k \in written : k < msg.len)
  /\ (PlainRead /\ pc = "stop") =>
       /\ Len(log) = 4 + Ceil8(msg.len)
       /\ \A c \in 0..(Ceil8(msg.len) - 1) : log[5 + c] = ReadDesc(msg.len, c)
       /\ written = 0..(msg.len - 1)
       /\ DOMAIN buf = 0..(msg.len - 1)
       /\ \A c \in 0..(Ceil8(msg.len) - 1) :
            \A j \in 0..(Min(8, msg.len - 8 * c) - 1) :
              buf[8 * c + j] = DevData(msg.seed, 8 * c)[j + 1]
       /\ \A k \in 0..(msg.len - 1) : buf[k] = PatByte(msg.seed, k)

\* a read of two chunks has been unpacked
C14_Witness ==
  /\ PlainRead
  /\ pc = "stop"
  /\ msg.len = MaxLen
  /\ Ceil8(msg.len) = 2
  /\ msg.seed = 200
  /\ buf[9] = PatByte(200, 9)

\* the first byte a block read receives
FirstByte == PatByte(msg.seed, 0)

\* C15: for a block read whose first received byte n has 0 < n < 32 the driver
\* reads exactly n further bytes, in ceil(n/8) read descriptors, into indices
\* 1..n, leaves n at index 0, and then issues the stop; it writes at most 32
\* buffer bytes and never an index greater than n, whatever the declared length.
C15_BlockRead ==
  /\ (IsBlockRead /\ FirstByte \in 1..(I2C_SMBUS_BLOCK_MAX - 1)) =>
       /\ Cardinality(written) <= I2C_SMBUS_BLOCK_MAX
       /\ \A k \in written : k <= FirstByte
  /\ (IsBlockRead /\ pc \in {"stop", "next"} /\ FirstByte \in 1..(I2C_SMBUS_BLOCK_MAX - 1)) =>
       LET n == FirstByte IN
       /\ written = 0..n
       /\ DOMAIN buf = 0..n
       /\ buf[0] = n
       /\ \A k \in 1..n : buf[k] = PatByte(msg.seed, k)
       /\ Len(log) = (IF pc = "stop" THEN 5 ELSE 6) + Ceil8(n)
       /\ log[5] = ReadDesc(1, 0)
       /\ \A c \in 0..(Ceil8(n) - 1) : log[6 + c] = ReadDesc(n, c)
       /\ pc = "next" => log[Len(log)] = W32(REG_SM0CTL1, Desc(0, SM0_MODE_STOP))

\* a block read of the largest valid length, declared with a shorter length,
\* has been stored and stopped
C15_Witness ==
  /\ IsBlockRead
  /\ pc = "next"
  /\ FirstByte = I2C_SMBUS_BLOCK_MAX - 1
  /\ msg.len < FirstByte
  /\ Cardinality(written) = I2C_SMBUS_BLOCK_MAX

\* a message on the write path (line 285)
PlainWrite == msg.flags \cap {"I2C_M_RD", "I2C_M_RECV_LEN"} = {}

\* C16: every write descriptor of the data phase of a write of total length L
\* carries the count field (L - 1) mod 8, derived from the total length and not
\* from the chunk's own length, in every chunk.
C16_WriteCountField ==
  (PlainWrite /\ pc = "stop") =>
     /\ Len(log) = 4 + 3 * Ceil8(msg.len)
     /\ \A c \in 0..(Ceil8(msg.len) - 1) :
          /\ IsDesc(log[7 + 3 * c])
          /\ DescMode(log[7 + 3 * c]) = SM0_MODE_WRITE
          /\ DescCnt(log[7 + 3 * c]) = (msg.len - 1) % 8

\* a write of two chunks whose length is no multiple of 8: the full first chunk
\* carries a count field other than 7
C16_Witness ==
  /\ PlainWrite
  /\ pc = "stop"
  /\ msg.len > 8
  /\ msg.len % 8 # 0
  /\ DescCnt(log[7]) # 7

\* C17: for a message with 7-bit address a the driver writes a & 0x7F to the
\* address-config register before the start descriptor; after the start it
\* puts ((a << 1) | read flag) & 0xFF in the low data register and issues one
\* write descriptor with count field 0; for a block read the direction bit is
\* the message's read flag.
C17_AddressPhase ==
  (pc \in {"branch", "rd_loop", "wr_loop", "stop"} /\ "I2C_M_TEN" \notin msg.flags) =>
     /\ Len(log) >= 4
     /\ log[1] = W32(REG_SM0CFG0, U32(msg.addr % (I2C_DEVADDR_MASK + 1)))
     /\ log[2] = W32(REG_SM0CTL1, Desc(0, SM0_MODE_START))
     /\ log[3] = W32(REG_SM0D0,
                     U32((2 * msg.addr + (IF "I2C_M_RD" \in msg.flags THEN 1 ELSE 0)) % 256))
     /\ log[4] = W32(REG_SM0CTL1, Desc(0, SM0_MODE_WRITE))

\* a block read without the read flag has been addressed with direction bit 0
C17_Witness ==
  /\ pc = "branch"
  /\ msg.flags = {"I2C_M_RECV_LEN"}
  /\ msg.addr = 127
  /\ log[3].val[1] = 254

\* the control register value with the fixed flags (open-drain-high, sync-pulse,
\* wait-for-high, state-machine-enable) and divisor d in bits 16..27
Ctl0With(d) == << 66, 0, d % 256, 144 + (d \div 256) >>

\* the divisor for the clock rate current now
DivNow ==
  LET hz == IF clk_prop = NoProp THEN DefaultBusHz ELSE clk_prop
      q == clk_rate \div hz
  IN IF q > CLK_DIV_MASK THEN CLK_DIV_MASK ELSE q

C20_StartsMatchStops == Returned => nStart = nStop

\* a call that ended with the block-length error in its second message has
\* issued two starts and two stops
C20_Witness ==
  /\ Returned
  /\ BadBlockLen
  /\ ret = 0 - EINVAL
  /\ i = 1
  /\ nStart = 2
  /\ nStop = 2

====
